---- MODULE Spec2Model ----
(***************************************************************************)
(* State-machine model of the email assistant repository:                  *)
(*   - src/my_agent/utils/__init__.py : interview pipeline                 *)
(*       parse_email -> summarize -> schedule -> reply -> END, with three  *)
(*       console checkpoints (summary, slot, reply), driven by main().     *)
(*   - src/agent.py : fixed pipeline                                       *)
(*       summarize -> check_reply -> generate_reply -> send_email -> END.  *)
(*   - src/my_agent/utils/tools.py : the tool-binding script.              *)
(*   - src/streamlit_app.py : the web front end.                           *)
(*                                                                         *)
(* Python strings are sequences of one-character strings, so that strip,   *)
(* lower, upper, `in`, split and join are computed as Python computes      *)
(* them.  None is a one-element sequence holding a token that is not a     *)
(* character, so it is different from every string, the empty one too.     *)
(***************************************************************************)
EXTENDS Integers, Sequences, FiniteSets, TLC

VARIABLES
    prog,          \* entry point in control: "none", "interview", "agent", "tools", "streamlit",
                   \* "read_email"
    pc,            \* position: a node name, "END", "aborted", "exited", "idle"
    runs,          \* number of runs started so far
    trace,         \* nodes that completed in the current run, in order
    st,            \* AgentState of the interview pipeline (a dict: key -> value)
    es,            \* EmailState of the agent.py pipeline (a dict: key -> value)
    cp,            \* per checkpoint: what was proposed and what the operator typed
    sent,          \* messages the mail provider accepted in the current run
    sendAttempts,  \* calls of the provider's send in the current run
    failedNode,    \* node whose exception ended the run, or the page's button whose
                   \* handler raised in the latest rerun, or "none"
    files,         \* paths written by the current run
    tool_calls,    \* response.tool_calls of the tools script
    executed,      \* tool calls that were actually run
    session        \* st.session_state of the Streamlit page

vars == <<prog, pc, runs, trace, st, es, cp, sent, sendAttempts, failedNode,
          files, tool_calls, executed, session>>

----------------------------------------------------------------------------
(* Bounds of the model. *)

MaxRuns == 2
MaxParseLines == 3
MaxToolCalls == 2

----------------------------------------------------------------------------
(* Python str operations, over ASCII letters.  The text helpers are functions   *)
(* rather than operators so that their argument is evaluated once.            *)

None == <<"<None>">>

\* The whitespace characters of the texts modelled here (str.strip removes these).
Whitespace == {" ", "\t", "\n", "\r", "\f"}

LowerChars == <<"a","b","c","d","e","f","g","h","i","j","k","l","m",
                "n","o","p","q","r","s","t","u","v","w","x","y","z">>
UpperChars == <<"A","B","C","D","E","F","G","H","I","J","K","L","M",
                "N","O","P","Q","R","S","T","U","V","W","X","Y","Z">>

LowerChar(c) ==
    IF \E i \in 1..Len(UpperChars) : UpperChars[i] = c
    THEN LowerChars[CHOOSE i \in 1..Len(UpperChars) : UpperChars[i] = c]
    ELSE c

UpperChar(c) ==
    IF \E i \in 1..Len(LowerChars) : LowerChars[i] = c
    THEN UpperChars[CHOOSE i \in 1..Len(LowerChars) : LowerChars[i] = c]
    ELSE c

Str == Seq(STRING)

\* str.lower() and str.upper()
Lower[s \in Str] == [i \in 1..Len(s) |-> LowerChar(s[i])]
Upper[s \in Str] == [i \in 1..Len(s) |-> UpperChar(s[i])]

\* str.strip(): what lies between the first and the last non-whitespace character.
Strip[s \in Str] ==
    LET kept == {i \in 1..Len(s) : s[i] \notin Whitespace}
    IN  IF kept = {} THEN <<>>
        ELSE SubSeq(s, CHOOSE i \in kept : \A j \in kept : i <= j,
                       CHOOSE i \in kept : \A j \in kept : i >= j)

StartsWith(s, p) == Len(s) >= Len(p) /\ SubSeq(s, 1, Len(p)) = p

\* Python's `sub in s`.
Contains(s, sub) ==
    \E i \in 0..(Len(s) - Len(sub)) : SubSeq(s, i + 1, i + Len(sub)) = sub

\* Python truthiness of an Optional[str]: None and "" are falsy.
Truthy(v) == v /= None /\ v /= <<>>

\* dict merge: the keys of `upd` replace or extend those of `d`.
Merge(d, upd) ==
    [k \in (DOMAIN d) \cup (DOMAIN upd) |-> IF k \in DOMAIN upd THEN upd[k] ELSE d[k]]

----------------------------------------------------------------------------
(* String literals of the source. *)

STR_y == <<"y">>
STR_yes == <<"y", "e", "s">>
STR_YES == <<"Y", "E", "S">>
STR_Re == <<"R", "e", ":", " ">>
STR_NoReplyNeeded == <<"N", "o", " ", "r", "e", "p", "l", "y", " ", "n", "e", "e", "d", "e", "d">>
STR_EmailSentTo == <<"E", "m", "a", "i", "l", " ", "s", "e", "n", "t", " ", "t", "o", " ">>
STR_WithSubject == <<" ", "w", "i", "t", "h", " ", "s", "u", "b", "j", "e", "c", "t", " ", "'">>
STR_ReceiptEnd == <<"'", ".">>

\* f"Email sent to {recipient} with subject '{subject}'."
Receipt(recipient, subject) ==
    STR_EmailSentTo \o recipient \o STR_WithSubject \o subject \o STR_ReceiptEnd

\* Mutant of ReSubject: the "Re: " prefix is left out.
ReSubject_NoPrefix(subject) == subject

\* f"Re: {state['subject']}"
ReSubject(subject) == STR_Re \o subject

----------------------------------------------------------------------------
(* Inputs: the texts the collaborators and the operator can produce. *)

EMAIL_Scenario1 ==
    <<"S","u","b","j","e","c","t",":"," ","D","e","m","o","\n",
      "F","r","o","m",":"," ","a","@","x",".","c","o","m","\n",
      "P","l","e","a","s","e"," ","s","e","n","d"," ","t","h","e"," ",
      "r","e","p","o","r","t"," ","b","y"," ","F","r","i","d","a","y",".">>
EMAIL_NoHeaders == <<" ","H","e","l","l","o","\n","s","e","e"," ","y","o","u"," ">>
EMAIL_Repeated ==
    <<"f","r","o","m",":"," ","b","@","y",".","o","r","g","\r","\n",
      "S","U","B","J","E","C","T",":","\n",
      "S","u","b","j","e","c","t",":"," ","T","w","o","\n","\n",
      "F","r","o","m",":"," ","c","@","z",".","i","o">>
EmailTexts == {EMAIL_Scenario1, EMAIL_NoHeaders, EMAIL_Repeated}

TZ_UTC == <<"U","T","C">>
TZ_London == <<"E","u","r","o","p","e","/","L","o","n","d","o","n">>
TZ_Unknown == <<"M","a","r","s","/","P","h","o","b","o","s">>
\* --tz values; the empty string takes the `or "UTC"` branch.
TzArgs == {TZ_UTC, <<>>, TZ_Unknown}
\* Keys ZoneInfo finds; any other key raises ZoneInfoNotFoundError.
KnownZones == {TZ_UTC, TZ_London}

\* res.content of the language model, before .strip().
LLM_SumA == <<"S","u","m"," ","A","\n">>
LLM_SumB == <<"\t","S","u","m"," ","B"," ">>
LLM_Blank == <<" ","\n">>
LLMContents == {LLM_SumA, LLM_SumB, LLM_Blank}

\* What the operator types at a y/n prompt.
IN_y == <<"y">>
IN_YesPadded == <<" ","Y","E","S"," ">>
IN_n == <<"n">>
IN_ye == <<"y","e">>
HumanResponses == {IN_y, IN_YesPadded, IN_n, IN_ye}

\* What the operator types at an "Enter your ..." prompt.
IN_Custom == <<"C","u","s","t","o","m"," ","s","u","m","m","a","r","y">>
IN_Edited == <<" "," ","E","d","i","t","e","d"," ","t","e","x","t"," ">>
IN_SumA == <<" ","S","u","m"," ","A">>
OverrideTexts == {IN_Custom, IN_Edited, IN_SumA, <<>>}

\* What the operator types at the "Enter new start datetime" prompt.
DT_Valid == <<"2","0","2","5","-","0","8","-","2","7"," ","1","5",":","0","0">>
DT_Late == <<" ","2","0","2","5","-","0","8","-","2","7"," ","2","3",":","4","5"," ">>
DT_Bad == <<"t","o","m","o","r","r","o","w">>
DT_Max == <<"9","9","9","9","-","1","2","-","3","1"," ","2","3",":","4","5">>
DatetimeTexts == {DT_Valid, DT_Late, DT_Bad, DT_Max, <<>>}

\* Date-times are a day counted from 2025-08-26 and a minute of that day.
MinutesPerDay == 24 * 60
At(day, hour, minute) == [day |-> day, minute |-> hour * 60 + minute]
\* datetime + timedelta(minutes=m), the carry into the date included.
AddMinutes(dt, m) ==
    [day |-> dt.day + (dt.minute + m) \div MinutesPerDay,
     minute |-> (dt.minute + m) % MinutesPerDay]
\* datetime.now(zone): 2025-08-26 09:05 and 2025-08-27 23:59.
NowChoices == {At(0, 9, 5), At(1, 23, 59)}

----------------------------------------------------------------------------
(* Interview pipeline: src/my_agent/utils/__init__.py *)

NoDict == [none |-> TRUE]
NoneRecord == [none |-> TRUE]
NoCp == [node |-> "none"]

STR_subject == <<"s","u","b","j","e","c","t",":">>
STR_from == <<"f","r","o","m",":">>
STR_Interview == <<"I","n","t","e","r","v","i","e","w">>
STR_EventDescription ==
    <<"3","0","-","m","i","n","u","t","e"," ","i","n","t","e","r","v","i","e","w"," ",
      "(","t","e","n","t","a","t","i","v","e",")",".">>

\* str.splitlines(): a line ends at "\n", "\r\n", "\r" or "\f"; no empty last line.
LineBreaks == {"\n", "\r", "\f"}

Lines == Seq(Str)

\* The scan of splitlines over a = <<rest, cur, acc>>: the text left, the line
\* being read and the lines read.
SplitLinesFrom[a \in Str \X Str \X Lines] ==
    LET rest == a[1]
        cur == a[2]
        acc == a[3]
    IN  IF rest = <<>>
        THEN IF cur = <<>> THEN acc ELSE Append(acc, cur)
        ELSE IF Head(rest) = "\r" /\ Len(rest) >= 2 /\ rest[2] = "\n"
        THEN SplitLinesFrom[<<Tail(Tail(rest)), <<>>, Append(acc, cur)>>]
        ELSE IF Head(rest) \in LineBreaks
        THEN SplitLinesFrom[<<Tail(rest), <<>>, Append(acc, cur)>>]
        ELSE SplitLinesFrom[<<Tail(rest), Append(cur, Head(rest)), acc>>]

SplitLines(text) == SplitLinesFrom[<<text, <<>>, <<>>>>]

\* l.split(":", 1)[1] for a line that holds a colon.
AfterFirstColon[l \in Str] ==
    LET i == CHOOSE k \in 1..Len(l) : l[k] = ":" /\ \A j \in 1..(k - 1) : l[j] /= ":"
    IN  SubSeq(l, i + 1, Len(l))

\* "\n".join(lines)
JoinLines[lines \in Lines] ==
    IF lines = <<>> THEN <<>>
    ELSE IF Len(lines) = 1 THEN lines[1]
    ELSE lines[1] \o <<"\n">> \o JoinLines[Tail(lines)]

\* The for loop of parse_email_node over the remaining lines.
\* a = <<lines, subject, sender, body_lines>>: the lines left and the loop's variables.
ParseLines[a \in Lines \X Str \X Str \X Lines] ==
    LET lines == a[1]
        subject == a[2]
        sender == a[3]
        body_lines == a[4]
    IN  IF lines = <<>>
        THEN [subject |-> subject, sender |-> sender, body_lines |-> body_lines]
        ELSE LET line == Head(lines)
                 l == Strip[line]
             IN  IF StartsWith(Lower[l], STR_subject) /\ subject = None
                 THEN ParseLines[<<Tail(lines), Strip[AfterFirstColon[l]], sender, body_lines>>]
                 ELSE IF StartsWith(Lower[l], STR_from) /\ sender = None
                 THEN ParseLines[<<Tail(lines), subject, Strip[AfterFirstColon[l]], body_lines>>]
                 ELSE ParseLines[<<Tail(lines), subject, sender, Append(body_lines, line)>>]

\* Mutant of ParseLines: the `is None` tests are left out, so the last header line
\* of each kind wins and no later header line reaches the body.
ParseLines_LastWins[a \in Lines \X Str \X Str \X Lines] ==
    LET lines == a[1]
        subject == a[2]
        sender == a[3]
        body_lines == a[4]
    IN  IF lines = <<>>
        THEN [subject |-> subject, sender |-> sender, body_lines |-> body_lines]
        ELSE LET line == Head(lines)
                 l == Strip[line]
             IN  IF StartsWith(Lower[l], STR_subject)
                 THEN ParseLines_LastWins[<<Tail(lines), Strip[AfterFirstColon[l]], sender, body_lines>>]
                 ELSE IF StartsWith(Lower[l], STR_from)
                 THEN ParseLines_LastWins[<<Tail(lines), subject, Strip[AfterFirstColon[l]], body_lines>>]
                 ELSE ParseLines_LastWins[<<Tail(lines), subject, sender, Append(body_lines, line)>>]

\* Mutant of ParseEmail: parse_email_node with the loop of ParseLines_LastWins.
ParseEmail_LastWins(email_text) ==
    LET r == ParseLines_LastWins[<<SplitLines(Strip[email_text]), None, None, <<>>>>]
    IN  [sender |-> r.sender, subject |-> r.subject,
         body |-> Strip[JoinLines[r.body_lines]], requested_times |-> <<>>]

\* ParsedEmail(sender=..., subject=..., body=...) built by parse_email_node.
ParseEmail(email_text) ==
    LET r == ParseLines[<<SplitLines(Strip[email_text]), None, None, <<>>>>]
    IN  [sender |-> r.sender, subject |-> r.subject,
         body |-> Strip[JoinLines[r.body_lines]], requested_times |-> <<>>]

\* Mutant of HumanAccepts: the answer is compared without .lower().
HumanAccepts_CaseSensitive(raw) == Strip[raw] \in {STR_y, STR_yes}

\* human not in ("y", "yes") after .strip().lower(): TRUE when the operator accepts.
HumanAccepts(raw) == Lower[Strip[raw]] \in {STR_y, STR_yes}

\* Mutant of OperatorText: the typed text is kept without .strip().
OperatorText_Raw(raw) == raw

\* input("> ").strip(): the text the operator typed at an override prompt.
OperatorText(raw) == Strip[raw]

\* The 30 minutes of timedelta(minutes=30).
SlotMinutes == 30

\* start.replace(hour=10, minute=0, second=0, microsecond=0) a day after `now`.
ProposedStart(now) == At(AddMinutes(now, MinutesPerDay).day, 10, 0)

\* dtparser.parse on the texts of DatetimeTexts, already stripped: the value, or
\* ok = FALSE where dateutil raises ParserError.
DtParse(s) ==
    IF s = DT_Valid THEN [ok |-> TRUE, value |-> At(1, 15, 0)]
    ELSE IF s = Strip[DT_Late] THEN [ok |-> TRUE, value |-> At(1, 23, 45)]
    ELSE IF s = DT_Max THEN [ok |-> TRUE, value |-> At(2912570, 23, 45)]
    ELSE [ok |-> FALSE, value |-> At(0, 0, 0)]

\* datetime.max, 9999-12-31 23:59: new_start + timedelta(minutes=30) raises
\* OverflowError beyond it.
DatetimeMax == At(2912570, 23, 59)

\* EventPlan(...) proposed by schedule_node.
ProposedPlan(parsed, now) ==
    [title |-> IF Truthy(parsed.subject) THEN parsed.subject ELSE STR_Interview,
     description |-> STR_EventDescription,
     location |-> None,
     start |-> ProposedStart(now),
     end |-> AddMinutes(ProposedStart(now), SlotMinutes),
     attendees |-> IF Truthy(parsed.sender) THEN <<parsed.sender>> ELSE <<>>]

\* state.get("timezone") or "UTC"
TzOf(state) == IF Truthy(state.timezone) THEN state.timezone ELSE TZ_UTC

\* Mutant of InterviewEdge: the edge out of summarize skips schedule.
InterviewEdge_SkipSchedule(node) ==
    CASE node = "parse_email" -> "summarize"
      [] node = "summarize" -> "reply"
      [] node = "schedule" -> "reply"
      [] node = "reply" -> "END"

\* Edges added by build_graph.
InterviewEdge(node) ==
    CASE node = "parse_email" -> "summarize"
      [] node = "summarize" -> "schedule"
      [] node = "schedule" -> "reply"
      [] node = "reply" -> "END"

InterviewOrder == <<"parse_email", "summarize", "schedule", "reply">>

CanStart == pc \in {"idle", "exited", "aborted", "usage_error"} /\ runs < MaxRuns

\* What every entry point resets when it starts a run.
StartRun(p, entry) ==
    /\ prog' = p
    /\ pc' = entry
    /\ runs' = runs + 1
    /\ trace' = <<>>
    /\ cp' = NoCp
    /\ sent' = <<>>
    /\ sendAttempts' = 0
    /\ failedNode' = "none"
    /\ files' = {}
    /\ tool_calls' = <<>>
    /\ executed' = <<>>

\* f.read() of a file opened in text mode: "\r\n" and a lone "\r" in the file's
\* contents are read as "\n".
ReadText[s \in Str] ==
    IF s = <<>> THEN <<>>
    ELSE IF Head(s) = "\r"
    THEN <<"\n">> \o ReadText[IF Len(s) >= 2 /\ s[2] = "\n" THEN Tail(Tail(s)) ELSE Tail(s)]
    ELSE <<Head(s)>> \o ReadText[Tail(s)]

\* main() up to graph.invoke(state): --email-text, or --email-file with the
\* contents of the file, and --tz.
main ==
    /\ CanStart
    /\ \E source \in {"text", "file"}, email_text \in EmailTexts \cup {<<>>}, tz \in TzArgs :
         IF source = "text" /\ email_text = <<>>
         THEN /\ StartRun("interview", "usage_error")
              /\ st' = NoDict
         ELSE /\ StartRun("interview", "parse_email")
              /\ st' = [email_text |-> IF source = "file" THEN ReadText[email_text]
                                        ELSE email_text,
                        parsed |-> NoneRecord, summary |-> None,
                        reply |-> None, event |-> NoneRecord, timezone |-> tz]
    /\ es' = NoDict
    /\ UNCHANGED session

NodeDone(node, next) ==
    /\ pc' = next
    /\ trace' = Append(trace, node)

parse_email_node ==
    /\ prog = "interview" /\ pc = "parse_email"
    /\ st' = [st EXCEPT !.parsed = ParseEmail(st.email_text)]
    /\ NodeDone("parse_email", InterviewEdge("parse_email"))
    /\ UNCHANGED <<prog, runs, es, cp, sent, sendAttempts, failedNode, files,
                   tool_calls, executed, session>>

summarize_node ==
    /\ prog = "interview" /\ pc = "summarize"
    /\ \E content \in LLMContents, human \in HumanResponses, text \in OverrideTexts :
         LET proposed == Strip[content]
             accepted == HumanAccepts(human)
         IN  /\ st' = [st EXCEPT !.summary = IF accepted THEN proposed ELSE OperatorText(text)]
             /\ cp' = [node |-> "summarize", proposed |-> proposed, human |-> human,
                       text |-> IF accepted THEN None ELSE text,
                       reads |-> IF accepted THEN 1 ELSE 2]
    /\ NodeDone("summarize", InterviewEdge("summarize"))
    /\ UNCHANGED <<prog, runs, es, sent, sendAttempts, failedNode, files,
                   tool_calls, executed, session>>

schedule_node ==
    /\ prog = "interview" /\ pc = "schedule"
    /\ TzOf(st) \in KnownZones
    /\ \E now \in NowChoices, human \in HumanResponses, text \in DatetimeTexts :
         LET plan == ProposedPlan(st.parsed, now)
             accepted == HumanAccepts(human)
             parsed_dt == DtParse(OperatorText(text))
             \* plan.start is assigned before the sum for plan.end is computed; an
             \* OverflowError of the sum is caught with the new start in place.
             final == IF ~accepted /\ parsed_dt.ok
                      THEN IF AddMinutes(parsed_dt.value, SlotMinutes).day > DatetimeMax.day
                           THEN [plan EXCEPT !.start = parsed_dt.value]
                           ELSE [plan EXCEPT !.start = parsed_dt.value,
                                             !.end = AddMinutes(parsed_dt.value, SlotMinutes)]
                      ELSE plan
         IN  /\ st' = [st EXCEPT !.event = final]
             /\ cp' = [node |-> "schedule", proposed |-> plan, human |-> human,
                       text |-> IF accepted THEN None ELSE text,
                       reads |-> IF accepted THEN 1 ELSE 2]
    /\ NodeDone("schedule", InterviewEdge("schedule"))
    /\ UNCHANGED <<prog, runs, es, sent, sendAttempts, failedNode, files,
                   tool_calls, executed, session>>

reply_node ==
    /\ prog = "interview" /\ pc = "reply"
    /\ \E content \in LLMContents, human \in HumanResponses, text \in OverrideTexts :
         LET draft == Strip[content]
             accepted == HumanAccepts(human)
         IN  /\ st' = [st EXCEPT !.reply = IF accepted THEN draft ELSE OperatorText(text)]
             /\ cp' = [node |-> "reply", proposed |-> draft, human |-> human,
                       text |-> IF accepted THEN None ELSE text,
                       reads |-> IF accepted THEN 1 ELSE 2]
    /\ NodeDone("reply", InterviewEdge("reply"))
    /\ UNCHANGED <<prog, runs, es, sent, sendAttempts, failedNode, files,
                   tool_calls, executed, session>>

\* A node's collaborator raises (the model call, ZoneInfo on an unknown key, input()
\* at end of input): graph.invoke and main propagate the exception.
interview_node_raises ==
    /\ prog = "interview" /\ pc \in {"summarize", "schedule", "reply"}
    /\ failedNode' = pc
    /\ pc' = "aborted"
    /\ UNCHANGED <<prog, runs, trace, st, es, cp, sent, sendAttempts, files,
                   tool_calls, executed, session>>

\* main() after graph.invoke returns: the three prints of FINAL OUTPUT.
main_output ==
    /\ prog = "interview" /\ pc = "END"
    /\ pc' = "exited"
    /\ UNCHANGED <<prog, runs, trace, st, es, cp, sent, sendAttempts, failedNode, files,
                   tool_calls, executed, session>>

----------------------------------------------------------------------------
(* Fixed pipeline: src/agent.py *)

EMAIL_Snippet == <<"C","a","n"," ","y","o","u"," ","s","e","n","d"," ","i","t","?">>
RCPT_Sarah == <<"s","a","r","a","h","@","e","x","a","m","p","l","e",".","c","o","m">>
SUBJ_Update == <<"P","r","o","j","e","c","t"," ","u","p","d","a","t","e">>
AgentEmails == {EMAIL_Snippet}
AgentRecipients == {RCPT_Sarah}
AgentSubjects == {SUBJ_Update, <<>>}

\* result.content of check_reply_tool's model call, before .strip().
LLM_Yes == <<"Y","e","s",".">>
LLM_No == <<"n","o","\n">>
LLM_EyesOnly == <<"E","y","e","s"," ","o","n","l","y">>
CheckContents == {LLM_Yes, LLM_No, LLM_EyesOnly}

\* result.content of generate_reply_tool's model call, before .strip().
LLM_DraftA == <<" ","W","i","l","l"," ","d","o",".","\n">>
LLM_DraftB == <<"S","u","r","e">>
DraftContents == {LLM_DraftA, LLM_DraftB, LLM_Blank}

\* Edges added to `workflow`.
AgentEdge(node) ==
    CASE node = "summarize" -> "check_reply"
      [] node = "check_reply" -> "generate_reply"
      [] node = "generate_reply" -> "send_email"
      [] node = "send_email" -> "END"

AgentOrder == <<"summarize", "check_reply", "generate_reply", "send_email">>

\* needs_reply = "YES" in result.upper()
NeedsReply(result) == Contains(Upper[result], STR_YES)

\* app.invoke({"email": ..., "recipient": ..., "subject": ...}) as in the example run.
agent_invoke ==
    /\ CanStart
    /\ StartRun("agent", "summarize")
    /\ \E email \in AgentEmails, recipient \in AgentRecipients, subject \in AgentSubjects :
         es' = [email |-> email, recipient |-> recipient, subject |-> subject]
    /\ st' = NoDict
    /\ UNCHANGED session

agent_summarize_node ==
    /\ prog = "agent" /\ pc = "summarize"
    /\ \E content \in LLMContents :
         es' = Merge(es, [summary |-> Strip[content]])
    /\ NodeDone("summarize", AgentEdge("summarize"))
    /\ UNCHANGED <<prog, runs, st, cp, sent, sendAttempts, failedNode, files,
                   tool_calls, executed, session>>

check_reply_node ==
    /\ prog = "agent" /\ pc = "check_reply"
    /\ \E content \in CheckContents :
         es' = Merge(es, [needs_reply |-> NeedsReply(Strip[content])])
    /\ NodeDone("check_reply", AgentEdge("check_reply"))
    /\ UNCHANGED <<prog, runs, st, cp, sent, sendAttempts, failedNode, files,
                   tool_calls, executed, session>>

generate_reply_node ==
    /\ prog = "agent" /\ pc = "generate_reply"
    /\ IF ~es.needs_reply
       THEN es' = Merge(es, [draft_reply |-> None])
       ELSE \E content \in DraftContents :
              es' = Merge(es, [draft_reply |-> Strip[content]])
    /\ NodeDone("generate_reply", AgentEdge("generate_reply"))
    /\ UNCHANGED <<prog, runs, st, cp, sent, sendAttempts, failedNode, files,
                   tool_calls, executed, session>>

\* credentials\token.json, the file get_gmail_service writes.
PATH_Token == <<"c","r","e","d","e","n","t","i","a","l","s","\\","t","o","k","e","n",".","j","s","o","n">>

\* What get_gmail_service finds and does: the token file holds valid credentials
\* ("valid", nothing written); there is no token file or its credentials are not
\* valid and the authorisation flow succeeds ("authorised", the token file is
\* written); the flow raises ("fails", nothing written).
GmailAuth == {"valid", "authorised", "fails"}

\* The paths a call of get_gmail_service that returns has written.
TokenWritten(auth, path) == IF auth = "authorised" THEN {path} ELSE {}

\* send_email_node, with send_email_tool returning its receipt.
send_email_node ==
    /\ prog = "agent" /\ pc = "send_email"
    /\ IF ~Truthy(es.draft_reply)
       THEN /\ es' = Merge(es, [status |-> STR_NoReplyNeeded])
            /\ UNCHANGED <<sent, sendAttempts, files>>
       ELSE /\ \E auth \in GmailAuth \ {"fails"} :
                 files' = files \cup TokenWritten(auth, PATH_Token)
            /\ sendAttempts' = sendAttempts + 1
            /\ sent' = Append(sent, [recipient |-> es.recipient,
                                     subject |-> ReSubject(es.subject),
                                     body |-> es.draft_reply])
            /\ es' = Merge(es, [status |-> Receipt(es.recipient, ReSubject(es.subject))])
    /\ NodeDone("send_email", AgentEdge("send_email"))
    /\ UNCHANGED <<prog, runs, st, cp, failedNode, tool_calls, executed, session>>

\* send_email_tool raises: get_gmail_service fails before it writes anything; or
\* it has its credentials (the token file written if it authorised) and then
\* build(...) raises, before any send is made; or the service is built and the
\* provider's send fails. Nothing catches it, so the first failure ends app.invoke.
send_email_raises ==
    /\ prog = "agent" /\ pc = "send_email"
    /\ Truthy(es.draft_reply)
    /\ \E auth \in GmailAuth, built \in BOOLEAN :
         IF auth = "fails"
         THEN UNCHANGED <<sendAttempts, files>>
         ELSE /\ files' = files \cup TokenWritten(auth, PATH_Token)
              /\ sendAttempts' = IF built THEN sendAttempts + 1 ELSE sendAttempts
    /\ failedNode' = "send_email"
    /\ pc' = "aborted"
    /\ UNCHANGED <<prog, runs, trace, st, es, cp, sent, tool_calls, executed, session>>

\* Mutant of agent_node_raises: the exception is swallowed, the node's keys get
\* defaults and the run goes on to the next node.
agent_node_raises_swallowed ==
    /\ prog = "agent"
    /\ \/ pc \in {"summarize", "check_reply"}
       \/ pc = "generate_reply" /\ es.needs_reply
    /\ failedNode' = pc
    /\ pc' = AgentEdge(pc)
    /\ es' = Merge([summary |-> None, needs_reply |-> TRUE, draft_reply |-> es.email], es)
    /\ UNCHANGED <<prog, runs, trace, st, cp, sent, sendAttempts, files,
                   tool_calls, executed, session>>

\* The model call of summarize, check_reply or generate_reply raises: app.invoke
\* propagates the exception and no later node runs.
agent_node_raises ==
    /\ prog = "agent"
    /\ \/ pc \in {"summarize", "check_reply"}
       \/ pc = "generate_reply" /\ es.needs_reply
    /\ failedNode' = pc
    /\ pc' = "aborted"
    /\ UNCHANGED <<prog, runs, trace, st, es, cp, sent, sendAttempts, files,
                   tool_calls, executed, session>>

\* The example run after app.invoke returns: the three prints.
agent_main_output ==
    /\ prog = "agent" /\ pc = "END"
    /\ pc' = "exited"
    /\ UNCHANGED <<prog, runs, trace, st, es, cp, sent, sendAttempts, failedNode, files,
                   tool_calls, executed, session>>

----------------------------------------------------------------------------
(* Tool-binding script: src/my_agent/utils/tools.py *)

multiply(a, b) == a * b

ToolArgs == {2, 3}
ToolCall == [name : {"multiply"}, args : [a : ToolArgs, b : ToolArgs]]
ToolCallSeqs == UNION {[1..n -> ToolCall] : n \in 0..MaxToolCalls}

tools_script ==
    /\ CanStart
    /\ StartRun("tools", "model_invoke")
    /\ st' = NoDict
    /\ es' = NoDict
    /\ UNCHANGED session

\* response = model_with_tools.invoke(user_input); print(response.tool_calls)
tools_invoke ==
    /\ prog = "tools" /\ pc = "model_invoke"
    /\ \E calls \in ToolCallSeqs : tool_calls' = calls
    /\ pc' = "exited"
    /\ UNCHANGED <<prog, runs, trace, st, es, cp, sent, sendAttempts, failedNode, files,
                   executed, session>>

----------------------------------------------------------------------------
(* Web front end: src/streamlit_app.py *)

MAIL_One == [id |-> "m1", subject |-> SUBJ_Update, sender |-> RCPT_Sarah,
             snippet |-> EMAIL_Snippet]
MAIL_Two == [id |-> "m2", subject |-> <<>>, sender |-> RCPT_Sarah, snippet |-> <<>>]
\* What fetch_unread_emails_tool returns.
FetchResults == {<<>>, <<MAIL_One>>, <<MAIL_One, MAIL_Two>>}

\* The page is opened: session_state is empty.
streamlit_open ==
    /\ CanStart
    /\ StartRun("streamlit", "page")
    /\ st' = NoDict
    /\ es' = NoDict
    /\ session' = <<>>

\* "Fetch Unread Emails": fetch_unread_emails_tool builds the service, lists the
\* unread messages and reads each one. The click raises when get_gmail_service
\* fails, when a call of the provider fails, or when a message has no Subject or
\* From header (next() on an empty generator); session_state is then left as it was.
streamlit_fetch ==
    /\ prog = "streamlit" /\ pc \in {"page", "page_error"}
    /\ \E auth \in GmailAuth, raises \in BOOLEAN, emails \in FetchResults :
         IF auth = "fails"
         THEN /\ pc' = "page_error"
              /\ failedNode' = "fetch_unread_emails"
              /\ UNCHANGED <<session, files>>
         ELSE /\ files' = files \cup TokenWritten(auth, PATH_Token)
              /\ IF raises
                 THEN /\ pc' = "page_error"
                      /\ failedNode' = "fetch_unread_emails"
                      /\ UNCHANGED session
                 ELSE /\ pc' = "page"
                      /\ failedNode' = "none"
                      /\ session' = IF emails = <<>> THEN session
                                     ELSE Merge(session, [emails |-> emails])
    /\ UNCHANGED <<prog, runs, trace, st, es, cp, sent, sendAttempts,
                   tool_calls, executed>>

\* "Process this email": the name email_app is bound nowhere in the module, so the
\* handler raises NameError before any pipeline runs and stores no result; the
\* draft area and "Send Reply", shown only for a stored result, never appear.
streamlit_process ==
    /\ prog = "streamlit" /\ pc \in {"page", "page_error"}
    /\ "emails" \in DOMAIN session
    /\ \E idx \in 1..Len(session.emails) : pc' = "page_error"
    /\ failedNode' = "process_email"
    /\ UNCHANGED <<prog, runs, trace, st, es, cp, sent, sendAttempts, files,
                   tool_calls, executed, session>>

\* The browser tab is closed.
streamlit_close ==
    /\ prog = "streamlit" /\ pc \in {"page", "page_error"}
    /\ pc' = "exited"
    /\ UNCHANGED <<prog, runs, trace, st, es, cp, sent, sendAttempts, failedNode, files,
                   tool_calls, executed, session>>

----------------------------------------------------------------------------
(* Mailbox export: src/my_agent/utils/read_email.py *)

PATH_ReadToken == <<".",".","\\",".",".","\\","c","r","e","d","e","n","t","i","a","l","s","\\","t","o","k","e","n",".","j","s","o","n">>
PATH_DataDir == <<".",".","\\",".",".","\\","d","a","t","a">>
PATH_DataPrefix == <<".",".","\\",".",".","\\","d","a","t","a","\\","e","m","a","i","l","s","_">>
PATH_JsonSuffix == <<".","j","s","o","n">>

Digits == <<"0","1","2","3","4","5","6","7","8","9">>
\* "%02d" and "%04d" of a date field.
Pad2(n) == <<Digits[((n \div 10) % 10) + 1], Digits[(n % 10) + 1]>>
Pad4(n) == Pad2(n \div 100) \o Pad2(n % 100)
\* date.strftime('%Y_%m_%d')
Strftime(d) == Pad4(d.year) \o <<"_">> \o Pad2(d.month) \o <<"_">> \o Pad2(d.day)
\* datetime.date.today()
TodayChoices == {[year |-> 2025, month |-> 8, day |-> 26],
                 [year |-> 2026, month |-> 10, day |-> 31]}
\* output_file
DataFile(today) == PATH_DataPrefix \o Strftime(today) \o PATH_JsonSuffix

\* python read_email.py
read_email_script ==
    /\ CanStart
    /\ StartRun("read_email", "main")
    /\ st' = NoDict
    /\ es' = NoDict
    /\ UNCHANGED session

\* main() of read_email.py: credentials (refreshed or newly authorised ones are
\* saved to the token file), today's messages listed and read, the data folder made
\* if it is not there, and the JSON file of the day written. A failing
\* authorisation or provider call ends the script with what was written so far.
read_email_main ==
    /\ prog = "read_email" /\ pc = "main"
    /\ \E auth \in GmailAuth, raises \in BOOLEAN, dir_exists \in BOOLEAN,
          today \in TodayChoices :
         IF auth = "fails"
         THEN /\ pc' = "aborted"
              /\ UNCHANGED files
         ELSE IF raises
         THEN /\ pc' = "aborted"
              /\ files' = files \cup TokenWritten(auth, PATH_ReadToken)
         ELSE /\ pc' = "exited"
              /\ files' = files \cup TokenWritten(auth, PATH_ReadToken)
                                \cup (IF dir_exists THEN {} ELSE {PATH_DataDir})
                                \cup {DataFile(today)}
    /\ UNCHANGED <<prog, runs, trace, st, es, cp, sent, sendAttempts, failedNode,
                   tool_calls, executed, session>>

----------------------------------------------------------------------------
(* Specification *)

Init ==
    /\ prog = "none"
    /\ pc = "idle"
    /\ runs = 0
    /\ trace = <<>>
    /\ st = NoDict
    /\ es = NoDict
    /\ cp = NoCp
    /\ sent = <<>>
    /\ sendAttempts = 0
    /\ failedNode = "none"
    /\ files = {}
    /\ tool_calls = <<>>
    /\ executed = <<>>
    /\ session = NoDict

\* One node of a running graph completes or raises.
NodeStep ==
    \/ parse_email_node
    \/ summarize_node
    \/ schedule_node
    \/ reply_node
    \/ interview_node_raises
    \/ agent_summarize_node
    \/ check_reply_node
    \/ generate_reply_node
    \/ send_email_node
    \/ send_email_raises
    \/ agent_node_raises

Next ==
    \/ main
    \/ main_output
    \/ agent_invoke
    \/ agent_main_output
    \/ tools_script
    \/ tools_invoke
    \/ streamlit_open
    \/ streamlit_fetch
    \/ streamlit_process
    \/ streamlit_close
    \/ read_email_script
    \/ read_email_main
    \/ NodeStep

Spec == Init /\ [][Next]_vars

\* Lines an email text is made of, for the runs that only parse.
LINE_Subject == <<"S","u","b","j","e","c","t",":"," ","D","e","m","o">>
LINE_From == <<"f","r","o","m",":"," ","b","@","y",".","o","r","g">>
LINE_Padded == <<" ","S","U","B","J","E","C","T",":","a",":","b"," ">>
LINE_EmptyFrom == <<"F","r","o","m",":">>
LINE_Hello == <<"H","e","l","l","o">>
LINE_Indented == <<" "," ","h","i">>
LINE_Inner == <<"R","e"," ","f","r","o","m",":"," ","x">>
ParseLineChoices == {LINE_Subject, LINE_From, LINE_Padded, LINE_EmptyFrom,
                     LINE_Hello, LINE_Indented, LINE_Inner, <<>>}

\* Contents of --email-file and values of --email-text: up to MaxParseLines lines
\* joined by "\n", and the texts of EmailTexts.
ParseTexts ==
    EmailTexts \cup
    {JoinLines[ls] : ls \in UNION {[1..n -> ParseLineChoices] : n \in 0..MaxParseLines}}

\* main() has taken the text from --email-text, or read it from the email file,
\* and graph.invoke is about to run parse_email.
ParseInit ==
    /\ prog = "interview"
    /\ pc = "parse_email"
    /\ runs = 1
    /\ trace = <<>>
    /\ st \in {[email_text |-> t, parsed |-> NoneRecord, summary |-> None,
                reply |-> None, event |-> NoneRecord, timezone |-> TZ_UTC] :
                t \in (ParseTexts \ {<<>>}) \cup {ReadText[f] : f \in ParseTexts}}
    /\ es = NoDict
    /\ cp = NoCp
    /\ sent = <<>>
    /\ sendAttempts = 0
    /\ failedNode = "none"
    /\ files = {}
    /\ tool_calls = <<>>
    /\ executed = <<>>
    /\ session = NoDict

\* Runs of parse_email_node alone, over every text of ParseTexts.
ParseSpec == ParseInit /\ [][parse_email_node]_vars

\* Every call a node makes returns or raises, so a started node finishes.
FairSpec == Spec /\ WF_vars(NodeStep)

----------------------------------------------------------------------------
(* Claims *)

InterviewRun == prog = "interview" /\ pc /= "usage_error"
AgentRun == prog = "agent"
NodeNames == {"parse_email", "summarize", "schedule", "reply",
              "check_reply", "generate_reply", "send_email"}
Running == (InterviewRun \/ AgentRun) /\ pc \in NodeNames
IsPrefix(a, b) == Len(a) <= Len(b) /\ SubSeq(b, 1, Len(a)) = a

\* The operator has resolved a checkpoint in the current run.
OperatorResolved == cp.node /= "none"
\* The operator's answer at the latest checkpoint is an accept, as the claims define
\* it: 'y' or 'yes', case-insensitive, surrounding whitespace ignored.
AnsweredAccept == OperatorResolved /\ Lower[Strip[cp.human]] \in {<<"y">>, <<"y","e","s">>}
\* The state field the latest checkpoint wrote.
WrittenField ==
    CASE cp.node = "summarize" -> st.summary
      [] cp.node = "schedule" -> st.event
      [] cp.node = "reply" -> st.reply

\* C1: in every run of the agent.py pipeline the provider's send is never executed
\* before an operator has approved the drafted reply for that run.
C1_NoSendBeforeApproval ==
    AgentRun /\ sendAttempts > 0 => OperatorResolved

\* C2: at each checkpoint, when the operator's response is an accept, the value
\* written to the state field is exactly the value proposed on entry, and exactly
\* one operator input was read for that checkpoint.
C2_AcceptWritesProposal ==
    InterviewRun /\ AnsweredAccept => WrittenField = cp.proposed /\ cp.reads = 1

C2_Witness ==
    /\ InterviewRun /\ cp.node = "schedule" /\ cp.human = IN_YesPadded
    /\ st.event = cp.proposed /\ cp.reads = 1

\* C3 as stated: at the summary and reply checkpoints a rejected proposal is
\* replaced by the operator's override text verbatim, for every override string,
\* and the field equals the proposal only if the override is that same text.
C3_OverrideVerbatim ==
    InterviewRun /\ cp.node \in {"summarize", "reply"} /\ ~AnsweredAccept
        => /\ WrittenField = cp.text
           /\ (WrittenField = cp.proposed => cp.text = cp.proposed)

\* The summary a checkpoint wrote is the summary of the final state: no later step
\* of the run writes it.
C3_SummaryKept ==
    InterviewRun /\ pc \in {"schedule", "reply", "END"} => st'.summary = st.summary

\* C3 as amended: at the summary and reply checkpoints a rejected proposal is
\* replaced by the operator's override text with its leading and trailing
\* whitespace removed, the field equals the proposal only if the stripped override
\* is that same text, and the written summary stays until the final state.
C3_OverrideStripped ==
    /\ [](InterviewRun /\ cp.node \in {"summarize", "reply"} /\ ~AnsweredAccept
            => /\ WrittenField = Strip[cp.text]
               /\ cp.reads = 2
               /\ (WrittenField = cp.proposed => Strip[cp.text] = cp.proposed))
    /\ [][C3_SummaryKept]_vars

C3_Witness ==
    /\ InterviewRun /\ pc = "exited" /\ cp.node = "reply" /\ cp.human = IN_n
    /\ cp.text = IN_Edited /\ st.reply = Strip[IN_Edited] /\ st.reply /= IN_Edited
    /\ st.reply /= cp.proposed

\* C4: at the schedule checkpoint, when the operator rejects the slot and types a
\* datetime that cannot be parsed, the operator is re-prompted, so the proposal is
\* kept only after more inputs than the answer and the first malformed datetime.
C4_RepromptOnMalformed ==
    InterviewRun /\ cp.node = "schedule" /\ ~AnsweredAccept /\ ~DtParse(Strip[cp.text]).ok
        => cp.reads >= 3

\* C5: in every run of either graph the nodes complete strictly in graph order,
\* each exactly once and one per step, and a run whose calls all return reaches
\* END (a run ends otherwise only when a call raises).
C5_InOrder ==
    (InterviewRun \/ AgentRun) =>
        LET order == IF prog = "interview" THEN InterviewOrder ELSE AgentOrder
        IN  /\ IsPrefix(trace, order)
            /\ pc \in NodeNames => pc = order[Len(trace) + 1]
            /\ pc \in {"END", "exited"} => trace = order
            /\ pc = "aborted" => failedNode = order[Len(trace) + 1]

C5_GraphOrder ==
    /\ []C5_InOrder
    /\ [][Len(trace') <= Len(trace) + 1]_vars
    /\ [](Running => <>(pc = "END" \/ (pc = "aborted" /\ failedNode /= "none")))

C5_Witness ==
    InterviewRun /\ pc = "END" /\ trace = <<"parse_email", "summarize", "schedule", "reply">>

\* C6: a failed send is retried: the run aborts on send_email only after more than
\* one attempt (all attempts up to the retry bound).
C6_SendRetried ==
    AgentRun /\ failedNode = "send_email" => sendAttempts >= 2

\* C7: once summarize, check_reply or generate_reply of the agent.py pipeline has
\* failed, the run is aborted and send_email is never executed in that run.
C7_NoSendAfterFailure ==
    AgentRun /\ failedNode \in {"summarize", "check_reply", "generate_reply"}
        => /\ pc = "aborted"
           /\ sendAttempts = 0 /\ sent = <<>>
           /\ \A i \in 1..Len(trace) : trace[i] /= "send_email"
           /\ "status" \notin DOMAIN es

C7_Witness ==
    AgentRun /\ failedNode = "generate_reply" /\ pc = "aborted" /\ es.needs_reply

\* C8: when the interview program completes after the operator resolved summary,
\* slot and reply, ./out/interview_invite.ics has been written.
C8_InviteWritten ==
    InterviewRun /\ pc = "exited" => <<".","/","o","u","t","/","i","n","t","e","r","v","i","e","w","_","i","n","v","i","t","e",".","i","c","s">> \in files

\* C9: when the tools script ends, every tool call the decision step emitted has
\* been executed.
C9_EveryCallExecuted ==
    prog = "tools" /\ pc = "exited" => Len(executed) = Len(tool_calls)

\* A completed run of the agent.py pipeline.
AgentCompleted == AgentRun /\ pc \in {"END", "exited"}
SentOnce ==
    /\ Len(sent) = 1 /\ sendAttempts = 1
    /\ sent[1].recipient = es.recipient
    /\ sent[1].subject = <<"R", "e", ":", " ">> \o es.subject
    /\ sent[1].body = es.draft_reply
    /\ es.status = Receipt(sent[1].recipient, sent[1].subject)
NothingSent ==
    /\ sent = <<>> /\ sendAttempts = 0
    /\ es.status = STR_NoReplyNeeded

\* C10 as stated: in a completed run, when needs_reply is false draft_reply is None,
\* nothing is sent and status is 'No reply needed'; otherwise send_email is invoked
\* exactly once with subject 'Re: ' + subject and body draft_reply, and status is
\* its result.
C10_SendIffNeedsReply ==
    AgentCompleted =>
        IF ~es.needs_reply
        THEN es.draft_reply = None /\ NothingSent
        ELSE SentOnce

\* C10 as amended: in a completed run, when needs_reply is false draft_reply is
\* None, and when needs_reply is false or the generated draft is empty nothing is
\* sent and status is 'No reply needed'; otherwise send_email is invoked exactly
\* once with subject 'Re: ' + subject and body draft_reply, and status is its result.
C10_SendIffNonEmptyDraft ==
    AgentCompleted =>
        /\ ~es.needs_reply => es.draft_reply = None
        /\ IF ~es.needs_reply \/ es.draft_reply = <<>>
           THEN NothingSent
           ELSE SentOnce

C10_Witness ==
    AgentCompleted /\ es.needs_reply /\ es.draft_reply = Strip[LLM_DraftA] /\ Len(sent) = 1

\* The lines parse_email_node loops over, and what the claim says of them.
C11_Lines == SplitLines(Strip[st.email_text])
C11_IsHeader(i, key) == StartsWith(Lower[Strip[C11_Lines[i]]], key)
\* The index of the first line whose trimmed form starts with `key`, 0 if none.
C11_First(key) ==
    IF \E i \in 1..Len(C11_Lines) : C11_IsHeader(i, key)
    THEN CHOOSE i \in 1..Len(C11_Lines) :
            C11_IsHeader(i, key) /\ \A j \in 1..(i - 1) : ~C11_IsHeader(j, key)
    ELSE 0
\* The trimmed text after the first colon of line i, None for i = 0.
C11_Value(i) ==
    IF i = 0 THEN None
    ELSE LET l == Strip[C11_Lines[i]]
             colon == CHOOSE k \in 1..Len(l) : l[k] = ":" /\ \A j \in 1..(k - 1) : l[j] /= ":"
         IN  Strip[SubSeq(l, colon + 1, Len(l))]
\* Every line but the two header lines, in the original order.
C11_Others ==
    LET idx == {i \in 1..Len(C11_Lines) :
                    i /= C11_First(STR_subject) /\ i /= C11_First(STR_from)}
    IN  [k \in 1..Cardinality(idx) |->
            C11_Lines[CHOOSE i \in idx : Cardinality({j \in idx : j < i}) = k - 1]]

\* C11: after parse_email_node, subject is the trimmed text after the first colon
\* of the first line whose trimmed form starts with 'subject:' in any case, sender
\* likewise for the first 'from:' line, each None when there is no such line; all
\* other lines, later header lines included, make up body in their order (joined
\* by newlines, trimmed as a whole); for the scenario-1 message sender is
\* 'a@x.com' and subject is 'Demo'.
C11_ParseFirstHeaders ==
    InterviewRun /\ st.parsed /= NoneRecord =>
        /\ st.parsed.subject = C11_Value(C11_First(STR_subject))
        /\ st.parsed.sender = C11_Value(C11_First(STR_from))
        /\ st.parsed.body = Strip[JoinLines[C11_Others]]
        /\ st.email_text = EMAIL_Scenario1 =>
              /\ st.parsed.sender = <<"a","@","x",".","c","o","m">>
              /\ st.parsed.subject = <<"D","e","m","o">>

\* A later 'from:' and a later 'subject:' line were kept in the body.
C11_Witness ==
    /\ InterviewRun /\ pc = "summarize"
    /\ st.email_text = JoinLines[<<LINE_From, LINE_Padded, LINE_Subject>>]
    /\ st.parsed.sender = <<"b","@","y",".","o","r","g">>
    /\ st.parsed.subject = <<"a",":","b">>
    /\ st.parsed.body = LINE_Subject

\* C12: the event written by schedule_node ends exactly 30 minutes after it
\* starts, whether the proposal was accepted, overridden with a parsable datetime,
\* or the override was unparsable; in the accepted and unparsable cases it starts
\* at the proposed 10:00 of the next day.
C12_ThirtyMinuteEvent ==
    InterviewRun /\ st.event /= NoneRecord =>
        /\ st.event.end = AddMinutes(st.event.start, SlotMinutes)
        /\ cp.node = "schedule" /\ (HumanAccepts(cp.human) \/ ~DtParse(OperatorText(cp.text)).ok) =>
              /\ st.event.start = cp.proposed.start
              /\ st.event.start.minute = 10 * 60

\* C13: in the Streamlit flow a click on "Process this email" completes, so that
\* the draft can be edited and "Send Reply" pressed, and every email the page has
\* sent carries the operator-edited text of the draft area as its body.
C13_SendReplySendsEdited ==
    prog = "streamlit" =>
        /\ failedNode /= "process_email"
        /\ \A i \in 1..Len(sent) :
              "draft_area" \in DOMAIN session /\ sent[i].body = session.draft_area

====
